---- MODULE Spec2Model ----
(***************************************************************************)
(* link-checker: the asynchronous URL checker of url-checker.py.           *)
(*                                                                         *)
(* URLChecker.check_all_links creates a semaphore and walks the input rows *)
(* in batches; every row of a batch becomes a check_single_url task, the   *)
(* tasks of a batch run concurrently under the semaphore, asyncio.gather   *)
(* collects their tuples in task order, and main sorts the tuples by line  *)
(* number and writes the report.                                           *)
(***************************************************************************)
EXTENDS Integers, Sequences, FiniteSets, TLC

\* ---------------------------------------------------------------- bounds
MaxLinks == 3
MaxBatch == 2
MaxConc == 2

\* ------------------------------------------------------ program constants
max_retries == 3
StopAfterAttempt == 3

\* ------------------------------------------------------------ the inputs
\* The URLs of the input rows.  The remote side is a fixed function of the
\* URL and of the number of the request made for it (Transport below).
URLs == {"u200", "u404", "uTimeout", "uFlaky", "uOther"}

ParentURL == "parent"

\* A row of the input CSV as csv.reader yields it: a list of strings.  A
\* blank line yields the empty list, a one-column line a list of one.  The
\* parent column is only passed through, so one URL stands for the
\* one-column rows.
Rows == {<<>>, <<"u200">>} \cup {<<u, ParentURL>> : u \in URLs}

RECURSIVE SeqsUpTo(_, _)
SeqsUpTo(S, n) ==
    IF n = 0 THEN {<<>>}
    ELSE LET shorter == SeqsUpTo(S, n - 1)
         IN  shorter \cup {Append(s, x) : s \in {t \in shorter : Len(t) = n - 1}, x \in S}

Min(a, b) == IF a <= b THEN a ELSE b

\* ---------------------------------------------------------- the transport
\* What session.get does for the k-th request a check makes for url.
Response(code, ctype) == [kind |-> "response", code |-> code, ctype |-> ctype]
Failure(kind) == [kind |-> kind, code |-> 0, ctype |-> <<>>]

Transport(url, k) ==
    CASE url = "u200" -> Response(200, <<"text/html">>)
      [] url = "u404" -> Response(404, <<>>)
      [] url = "uTimeout" -> Failure("TimeoutError")
      [] url = "uFlaky" -> IF k <= 2 THEN Failure("ClientError")
                                    ELSE Response(200, <<"text/html">>)
      [] OTHER -> Failure("Exception")

\* ------------------------------------------------------------ the tuples
\* status is an int (the HTTP status) or a str (an error text).
IntStatus(code) == [isint |-> TRUE, code |-> code, text |-> ""]
StrStatus(text) == [isint |-> FALSE, code |-> 0, text |-> text]

\* (url, status, content_type, parent_url, line_number)
Result(url, status, ctype, parent, line) ==
    [url |-> url, status |-> status, ctype |-> ctype, parent |-> parent, line |-> line]

\* response.headers.get('Content-Type', 'Unknown')
ContentType(ans) == IF ans.ctype = <<>> THEN "Unknown" ELSE ans.ctype[1]

Returns(v) == [raised |-> FALSE, value |-> v, exc |-> ""]
Raises(e) == [raised |-> TRUE, value |-> Result("", StrStatus(""), "", "", 0), exc |-> e]

\* The body of check_single_url under the semaphore: the try block.
CheckBodyRaiseForStatus(url, parent, line, ans) ==
    IF ans.kind = "response"
    THEN IF ans.code >= 400
         THEN Raises("ClientResponseError")
         ELSE Returns(Result(url, IntStatus(ans.code), ContentType(ans), parent, line))
    ELSE IF ans.kind = "TimeoutError"
    THEN Returns(Result(url, StrStatus("Timeout after 15 seconds"), "None", parent, line))
    ELSE IF ans.kind = "ClientError"
    THEN Returns(Result(url, StrStatus("Connection error: e"), "None", parent, line))
    ELSE Returns(Result(url, StrStatus("Unexpected error: e"), "None", parent, line))

CheckBody(url, parent, line, ans) ==
    IF ans.kind = "response"
    THEN Returns(Result(url, IntStatus(ans.code), ContentType(ans), parent, line))
    ELSE IF ans.kind = "TimeoutError"
    THEN Returns(Result(url, StrStatus("Timeout after 15 seconds"), "None", parent, line))
    ELSE IF ans.kind = "ClientError"
    THEN Returns(Result(url, StrStatus("Connection error: e"), "None", parent, line))
    ELSE Returns(Result(url, StrStatus("Unexpected error: e"), "None", parent, line))

\* retry_error_callback of the tenacity decorator.
RetryErrorCallback(url, parent, line, attempt_number, exc) ==
    Result(url, StrStatus("Failed after attempts"), "None", parent, line)

\* stop=stop_after_attempt(3): an attempt that raised is repeated unless it
\* was the third.
RetryAgain(attempt, attempt_number) ==
    attempt.raised /\ attempt_number < StopAfterAttempt

\* ------------------------------------------------------------- batching
\* range(0, len(links), batch_size) and links[i:i + batch_size]: the batch
\* that starts at offset i (0-based) holds the rows i+1 .. BatchStop.
BatchStopWhole(i, bs, n) == IF i + bs <= n THEN i + bs ELSE i

BatchStop(i, bs, n) == Min(i + bs, n)

BatchOf(i, bs, n) == (i + 1) .. BatchStop(i, bs, n)

\* i + idx + 2: the line of the CSV file the row came from (line 1 is the
\* header), for the row at index idx (0-based) of the batch at offset i.
LineNumberInBatch(i, idx) == idx + 2

LineNumberOffByOne(i, idx) == i + idx + 1

LineNumber(i, idx) == i + idx + 2

\* link[0] and link[1] if len(link) > 1 else "N/A"
UrlOf(link) == link[1]
ParentOf(link) == IF Len(link) > 1 THEN link[2] ELSE "N/A"

\* ------------------------------------------------------------ semaphore
\* asyncio.Semaphore: acquire succeeds while the value is positive; leaving
\* the async with block gives the permit back on every exit path.
CanAcquireAlways(sem) == TRUE

CanAcquire(sem) == sem > 0

SemaphoreExitOnSuccess(sem, ans) == IF ans.kind = "response" THEN sem + 1 ELSE sem

SemaphoreExit(sem, ans) == sem + 1

\* ----------------------------------------------------------------- sort
\* results.sort(key=lambda x: x[4]): a stable sort by line number.
RECURSIVE InsertByLine(_, _)
InsertByLine(x, s) ==
    IF s = <<>> THEN <<x>>
    ELSE IF x.line < s[1].line THEN <<x>> \o s
    ELSE <<s[1]>> \o InsertByLine(x, Tail(s))

RECURSIVE SortByLine(_)
SortByLine(s) ==
    IF s = <<>> THEN <<>>
    ELSE InsertByLine(s[Len(s)], SortByLine(SubSeq(s, 1, Len(s) - 1)))

\* ---------------------------------------------------------------- state
VARIABLES
    links,           \* the rows read from the input CSV (header skipped)
    batch_size,      \* check_urls_batch's batch_size
    max_concurrent,  \* URLChecker.max_concurrent
    pc,              \* where check_all_links / main stands
    i,               \* offset of the current batch
    semaphore,       \* <<>> for None, <<value>> once created
    st,              \* per row: the state of its check_single_url task
    lineno,          \* per row: the line_number its task was created with
    requests,        \* per row: session.get calls made for it
    outcome,         \* per row: <<>> or <<the tuple its task returned>>
    all_results,     \* check_urls_batch's all_results
    results,         \* main's results after the sort
    report,          \* the rows main wrote to the report (header left out)
    overtaken        \* some check finished before an earlier one of its batch

checkerVars == <<links, batch_size, max_concurrent, pc, i, semaphore, st, lineno,
                 requests, outcome, all_results, results, report, overtaken>>

\* The state of link extraction (get_links of external_link_checker.py and
\* of get-links.py, get_external_links of the workflow script).
VARIABLES
    ex_base,         \* the url of the page the links are extracted from
    ex_hrefs,        \* the href attributes of the page's anchors
    ex_ran,          \* the extractors that have run on the page
    ex_internal,     \* get_links (external_link_checker.py): internal_links
    ex_external,     \* get_links (external_link_checker.py): external_links
    ex_links,        \* get_links (get-links.py): links
    ex_wf_external   \* get_external_links (workflow script): external_links

extractVars == <<ex_base, ex_hrefs, ex_ran, ex_internal, ex_external, ex_links,
                 ex_wf_external>>

\* The state of a crawl: crawl_and_check_links of external_link_checker.py
\* ("ext"), crawl_site of get-all-library-links.py ("bfs") or crawl_site of
\* get-links.py ("getlinks").  One script runs; prog says which.
VARIABLES
    prog,                \* the script that runs
    start_url,           \* start_url / base_url
    max_pages,           \* ext: max_pages
    max_depth,           \* bfs: max_depth
    max_links,           \* getlinks: max_links
    recurse,             \* getlinks: recurse
    c_pc,                \* where the crawl stands
    visited,             \* visited
    to_visit,            \* ext, getlinks: to_visit
    queue,               \* bfs: queue, of <<url, depth>>
    all_external_links,  \* ext: external url -> parent url
    to_check,            \* ext: the external urls the check loop has yet to reach
    c_results,           \* ext: results
    all_links,           \* getlinks: the (link, url) pairs not yet yielded; bfs: all_links
    written,             \* getlinks: the pairs yielded so far and written by main
    fetches,             \* per url: the calls of the link extractor on it
    seen,                \* the urls of the anchors of the pages fetched so far
    failed,              \* the page of the last extraction, when it ended in an exception
    last_links,          \* the links the latest extraction returned
    crawled              \* the extractions so far, in order: url, depth, links

crawlVars == <<prog, start_url, max_pages, max_depth, max_links, recurse, c_pc,
               visited, to_visit, queue, all_external_links, to_check, c_results,
               all_links, written, fetches, seen, failed, last_links, crawled>>

\* The computation of the broken_links_found flag at the end of the mains
\* of url-checker.py and external_link_checker.py.
VARIABLES
    fl_statuses,     \* the status fields of the results, in order
    fl_ran,          \* the mains that have computed their flag
    fl_checker,      \* url-checker.py: broken_links_found
    fl_external      \* external_link_checker.py: broken_links_found

flagVars == <<fl_statuses, fl_ran, fl_checker, fl_external>>

otherThanChecker == <<extractVars, crawlVars, flagVars>>

otherThanExtract == <<checkerVars, crawlVars, flagVars>>

otherThanCrawl == <<checkerVars, extractVars, flagVars>>

otherThanFlag == <<checkerVars, extractVars, crawlVars>>

vars == <<checkerVars, extractVars, crawlVars, flagVars>>

CrawlIdle ==
    /\ prog = "none"
    /\ start_url = <<>>
    /\ max_pages = 0
    /\ max_depth = 0
    /\ max_links = 0
    /\ recurse = FALSE
    /\ c_pc = "idle"
    /\ visited = {}
    /\ to_visit = {}
    /\ queue = <<>>
    /\ all_external_links = <<>>
    /\ to_check = {}
    /\ c_results = <<>>
    /\ all_links = {}
    /\ written = {}
    /\ fetches = <<>>
    /\ seen = {}
    /\ failed = {}
    /\ last_links = {}
    /\ crawled = <<>>

FlagIdle ==
    /\ fl_statuses = <<>>
    /\ fl_ran = {}
    /\ fl_checker = ""
    /\ fl_external = ""

ExtractIdle ==
    /\ ex_base = <<>>
    /\ ex_hrefs = {}
    /\ ex_ran = {}
    /\ ex_internal = {}
    /\ ex_external = {}
    /\ ex_links = {}
    /\ ex_wf_external = {}

N == Len(links)

Init ==
    /\ links \in SeqsUpTo(Rows, MaxLinks)
    /\ batch_size \in 1 .. MaxBatch
    /\ max_concurrent \in 1 .. MaxConc
    /\ pc = "main"
    /\ i = 0
    /\ semaphore = <<>>
    /\ st = [r \in 1 .. Len(links) |-> "none"]
    /\ lineno = [r \in 1 .. Len(links) |-> 0]
    /\ requests = [r \in 1 .. Len(links) |-> 0]
    /\ outcome = [r \in 1 .. Len(links) |-> <<>>]
    /\ all_results = <<>>
    /\ results = <<>>
    /\ report = <<>>
    /\ overtaken = FALSE
    /\ ExtractIdle
    /\ CrawlIdle
    /\ FlagIdle

\* check_all_links: create the semaphore, enter check_urls_batch.
CheckAllLinks ==
    /\ pc = "main"
    /\ semaphore' = <<max_concurrent>>
    /\ all_results' = <<>>
    /\ i' = 0
    /\ pc' = "loop"
    /\ UNCHANGED <<links, batch_size, max_concurrent, st, lineno, requests,
                   outcome, results, report, overtaken>>
    /\ UNCHANGED otherThanChecker

\* One iteration of the for loop up to the await: the tasks of the batch
\* are created, each with its url, parent and line number.
CreateTasks ==
    /\ pc = "loop"
    /\ i < N
    /\ \A r \in BatchOf(i, batch_size, N) : Len(links[r]) > 0
    /\ st' = [r \in 1 .. N |-> IF r \in BatchOf(i, batch_size, N) THEN "ready" ELSE st[r]]
    /\ lineno' = [r \in 1 .. N |->
                    IF r \in BatchOf(i, batch_size, N)
                    THEN LineNumber(i, r - 1 - i) ELSE lineno[r]]
    /\ pc' = "gather"
    /\ UNCHANGED <<links, batch_size, max_concurrent, i, semaphore, requests,
                   outcome, all_results, results, report, overtaken>>
    /\ UNCHANGED otherThanChecker

\* link[0] on an empty row: IndexError leaves the list comprehension,
\* check_urls_batch and check_all_links; main does not catch it.
CreateTasksIndexError ==
    /\ pc = "loop"
    /\ i < N
    /\ \E r \in BatchOf(i, batch_size, N) : Len(links[r]) = 0
    /\ pc' = "raised"
    /\ UNCHANGED <<links, batch_size, max_concurrent, i, semaphore, st, lineno,
                   requests, outcome, all_results, results, report, overtaken>>
    /\ UNCHANGED otherThanChecker

\* A task runs up to its first suspension: it takes a permit and issues
\* the request, or waits on the semaphore.
TaskStart(r) ==
    /\ pc = "gather"
    /\ st[r] = "ready"
    /\ IF CanAcquire(semaphore[1])
       THEN /\ semaphore' = <<semaphore[1] - 1>>
            /\ st' = [st EXCEPT ![r] = "inflight"]
            /\ requests' = [requests EXCEPT ![r] = @ + 1]
       ELSE /\ st' = [st EXCEPT ![r] = "waiting"]
            /\ UNCHANGED <<semaphore, requests>>
    /\ UNCHANGED <<links, batch_size, max_concurrent, pc, i, lineno, outcome,
                   all_results, results, report, overtaken>>
    /\ UNCHANGED otherThanChecker

\* A waiting task gets a permit and issues its request.
TaskAcquire(r) ==
    /\ pc = "gather"
    /\ st[r] = "waiting"
    /\ CanAcquire(semaphore[1])
    /\ semaphore' = <<semaphore[1] - 1>>
    /\ st' = [st EXCEPT ![r] = "inflight"]
    /\ requests' = [requests EXCEPT ![r] = @ + 1]
    /\ UNCHANGED <<links, batch_size, max_concurrent, pc, i, lineno, outcome,
                   all_results, results, report, overtaken>>
    /\ UNCHANGED otherThanChecker

\* The request of a task ends: the try block returns its tuple (or raises),
\* the permit goes back, and the retry decorator returns the tuple, calls
\* the function again, or gives up with retry_error_callback's tuple.
RequestEnds(r) ==
    /\ pc = "gather"
    /\ st[r] = "inflight"
    /\ LET ans == Transport(UrlOf(links[r]), requests[r])
           attempt == CheckBody(UrlOf(links[r]), ParentOf(links[r]), lineno[r], ans)
       IN  /\ semaphore' = <<SemaphoreExit(semaphore[1], ans)>>
           /\ IF RetryAgain(attempt, requests[r])
              THEN /\ st' = [st EXCEPT ![r] = "ready"]
                   /\ UNCHANGED <<outcome, overtaken>>
              ELSE /\ st' = [st EXCEPT ![r] = "done"]
                   /\ outcome' = [outcome EXCEPT ![r] =
                          IF attempt.raised
                          THEN <<RetryErrorCallback(UrlOf(links[r]), ParentOf(links[r]),
                                                    lineno[r], requests[r], attempt.exc)>>
                          ELSE <<attempt.value>>]
                   /\ overtaken' = (overtaken \/
                          \E q \in BatchOf(i, batch_size, N) : q < r /\ st[q] # "done")
    /\ UNCHANGED <<links, batch_size, max_concurrent, pc, i, lineno, requests,
                   all_results, results, report>>
    /\ UNCHANGED otherThanChecker

\* asyncio.gather(*tasks): resumes when every task of the batch is done and
\* yields their tuples in task order.
GatherReadyAny(batch) == \E r \in batch : st[r] = "done"

GatherReady(batch) == \A r \in batch : st[r] = "done"

RECURSIVE Gathered(_, _)
Gathered(lo, hi) ==
    IF lo > hi THEN <<>> ELSE outcome[lo] \o Gathered(lo + 1, hi)

\* The await returns: all_results.extend(batch_results), next iteration.
GatherDone ==
    /\ pc = "gather"
    /\ GatherReady(BatchOf(i, batch_size, N))
    /\ all_results' = all_results \o Gathered(i + 1, BatchStop(i, batch_size, N))
    /\ i' = i + batch_size
    /\ pc' = "loop"
    /\ UNCHANGED <<links, batch_size, max_concurrent, semaphore, st, lineno,
                   requests, outcome, results, report, overtaken>>
    /\ UNCHANGED otherThanChecker

\* The loop is over: check_all_links returns all_results, main sorts them
\* by line number and writes them to the report.
ReturnAndReport ==
    /\ pc = "loop"
    /\ i >= N
    /\ results' = SortByLine(all_results)
    /\ report' = SortByLine(all_results)
    /\ pc' = "done"
    /\ UNCHANGED <<links, batch_size, max_concurrent, i, semaphore, st, lineno,
                   requests, outcome, all_results, overtaken>>
    /\ UNCHANGED otherThanChecker

Next ==
    \/ CheckAllLinks
    \/ CreateTasks
    \/ CreateTasksIndexError
    \/ \E r \in 1 .. N : TaskStart(r)
    \/ \E r \in 1 .. N : TaskAcquire(r)
    \/ \E r \in 1 .. N : RequestEnds(r)
    \/ GatherDone
    \/ ReturnAndReport

Spec == Init /\ [][Next]_vars

\* The same runs under the scheduling of the event loop: a task that can
\* run is run, and a request that was issued ends (with a response, a
\* timeout or an error), so a run does not stop while a step is possible.
SpecLive == Spec /\ WF_vars(Next)

\* =============================================================== claims
InFlight == {r \in 1 .. N : st[r] = "inflight"}

\* The number of the batch a row falls in (0-based).
BatchIndex(r) == (r - 1) \div batch_size

CeilDiv(a, b) == (a + b - 1) \div b

\* The rows of all_results that carry row r's url, parent and line number.
PlacesOf(r) ==
    {p \in 1 .. Len(all_results) :
        /\ all_results[p].line = lineno[r]
        /\ all_results[p].url = UrlOf(links[r])
        /\ all_results[p].parent = ParentOf(links[r])}

\* C1: when check_all_links has returned, all_results holds exactly one
\* tuple per input row, N in all, and the loop ran ceil(N / batch_size)
\* times, also when N is no multiple of batch_size.
C1_OneOutcomePerRecord ==
    pc = "done" =>
        /\ Len(all_results) = N
        /\ \A r \in 1 .. N : Cardinality(PlacesOf(r)) = 1
        /\ i = batch_size * CeilDiv(N, batch_size)

\* C1 witness: three rows in batches of two (a full and a partial batch)
\* gave three tuples.
C1_Witness ==
    /\ pc = "done"
    /\ N = 3
    /\ batch_size = 2
    /\ Len(all_results) = 3

\* C2 as stated: after the sort the tuple at 0-based position p carries
\* the order value p.
C2_OrderFieldEqualsIndex ==
    pc = "done" => \A p \in 1 .. Len(results) : results[p].line = p - 1

\* C2 amended: after the sort the tuple at 0-based position p carries the
\* line number p + 2 (the row's line in the CSV file, the header being
\* line 1), and there are N tuples.
C2_OrderFieldEqualsCsvLine ==
    pc = "done" =>
        /\ Len(results) = N
        /\ \A p \in 1 .. Len(results) : results[p].line = (p - 1) + 2

\* C2 witness: a sorted result of three rows that took two batches.
C2_Witness ==
    /\ pc = "done"
    /\ Len(results) = 3
    /\ batch_size = 2
    /\ results[3].line = 4

\* C3: the rows written to the report are the input rows in input order,
\* with strictly ascending line numbers, whatever the order in which the
\* checks of a batch ended.
C3_ReportInInputOrder ==
    pc = "done" =>
        /\ Len(report) = N
        /\ \A p \in 1 .. Len(report) :
              /\ report[p].url = UrlOf(links[p])
              /\ report[p].parent = ParentOf(links[p])
        /\ \A p, q \in 1 .. Len(report) : p < q => report[p].line < report[q].line

\* C3 witness: a report was written after a check ended before an earlier
\* check of its batch, the two rows having different URLs.
C3_Witness ==
    /\ pc = "done"
    /\ overtaken
    /\ N >= 2
    /\ report[1].url # report[2].url

\* C4 as stated: a check whose transport fails the first two requests with
\* a connection error and answers the third ends with the status of the
\* third request, after exactly 3 requests.
C4_RetriesUntilAnswer ==
    \A r \in 1 .. N :
        (st[r] = "done" /\ UrlOf(links[r]) = "uFlaky") =>
            /\ requests[r] = 3
            /\ outcome[r][1].status = IntStatus(Transport("uFlaky", 3).code)

\* C5 as stated: a check whose every request times out ends with a timeout
\* error only after exactly max_retries requests.
C5_TimeoutAfterCeiling ==
    \A r \in 1 .. N :
        (st[r] = "done" /\ UrlOf(links[r]) = "uTimeout") =>
            /\ requests[r] = max_retries
            /\ ~outcome[r][1].status.isint

\* C6: a check whose request is answered with an HTTP status makes one
\* request and no more, and ends with that status.
C6_StatusNeverRetried ==
    \A r \in 1 .. N :
        (Len(links[r]) > 0 /\ Transport(UrlOf(links[r]), 1).kind = "response") =>
            /\ requests[r] <= 1
            /\ st[r] = "done" =>
                  /\ requests[r] = 1
                  /\ outcome[r][1].status = IntStatus(Transport(UrlOf(links[r]), 1).code)

\* C6 witness: a check answered 404 has ended.
C6_Witness ==
    \E r \in 1 .. N :
        /\ st[r] = "done"
        /\ UrlOf(links[r]) = "u404"
        /\ outcome[r][1].status = IntStatus(404)

\* C7 as stated: no exception leaves check_all_links, whatever the rows
\* and whatever the transport does.
C7_NeverRaises == pc # "raised"

\* C8: at most max_concurrent requests are in flight, and the semaphore
\* counts the permits that are left.
C8_InFlightBounded ==
    /\ Cardinality(InFlight) <= max_concurrent
    /\ semaphore # <<>> => semaphore[1] = max_concurrent - Cardinality(InFlight)

\* C8 witness: max_concurrent requests are in flight while another task
\* of the batch waits for a permit.
C8_Witness ==
    /\ Cardinality(InFlight) = max_concurrent
    /\ \E r \in 1 .. N : st[r] = "waiting"

\* The status a check ends with, as a function of what the transport does
\* for its own first request.
OwnStatus(url) ==
    LET ans == Transport(url, 1)
    IN  IF ans.kind = "response" THEN IntStatus(ans.code)
        ELSE IF ans.kind = "TimeoutError" THEN StrStatus("Timeout after 15 seconds")
        ELSE IF ans.kind = "ClientError" THEN StrStatus("Connection error: e")
        ELSE StrStatus("Unexpected error: e")

Failed(r) == st[r] = "done" /\ ~outcome[r][1].status.isint

\* C9: the failure of a check neither changes nor blocks a sibling: a
\* check that has ended carries the status of its own url, and a check
\* that has not ended is able to go on (it is ready or in flight, or it
\* waits for a permit that is free or held by a request in flight).
C9_SiblingsIsolated ==
    \A r \in 1 .. N :
        /\ st[r] = "done" =>
              /\ outcome[r][1].status = OwnStatus(UrlOf(links[r]))
              /\ outcome[r][1].url = UrlOf(links[r])
        /\ st[r] = "waiting" => (semaphore[1] > 0 \/ InFlight # {})
        /\ (pc = "loop" /\ st[r] # "none") => st[r] = "done"

\* C9 witness: in a batch that shares one permit a check has failed and a
\* sibling has been answered 200.
C9_Witness ==
    \E r, q \in 1 .. N :
        /\ r # q
        /\ BatchIndex(r) = BatchIndex(q)
        /\ Failed(r)
        /\ st[q] = "done"
        /\ outcome[q][1].status = IntStatus(200)
        /\ max_concurrent = 1

\* C10: no task of a later batch exists, and no request of it is made,
\* before every task of the earlier batches has ended with its tuple.
C10_BatchesSequential ==
    \A r, q \in 1 .. N :
        (BatchIndex(r) < BatchIndex(q) /\ (st[q] # "none" \/ requests[q] > 0)) =>
            /\ st[r] = "done"
            /\ outcome[r] # <<>>

\* C10 witness: a request of the second batch is in flight, the first
\* batch having held two checks.
C10_Witness ==
    /\ N = 3
    /\ BatchIndex(1) = 0
    /\ BatchIndex(2) = 0
    /\ BatchIndex(3) = 1
    /\ st[3] = "inflight"

\* ====================================================== link extraction
\* The link extractors of external_link_checker.py, of get-links.py and of
\* the workflow script, as functions of a page's url and of the href
\* attributes of its anchors.

MaxAnchors == 4

\* A host name is a string.  It is kept as the sequence of the pieces that
\* the string tests of the scripts (==, endswith, in) can tell apart:
\* <<"evil", "soton.ac.uk">> is the host "evilsoton.ac.uk".
HostRoot == <<"soton.ac.uk">>
HostWww == <<"www", ".", "soton.ac.uk">>
HostLibrary == <<"library", ".", "soton.ac.uk">>
HostEprints == <<"eprints", ".", "soton.ac.uk">>
HostLookalike == <<"evil", "soton.ac.uk">>
HostExternal == <<"external.test">>
HostGoogle == <<"www", ".", "google.com">>
HostGoogleInfix == <<"google.com", ".", "evil.org">>
HostSkipPage == <<"www", ".", "specific-page-to-skip.com">>

\* str.endswith and the in test of two strings.
EndsWith(s, suffix) ==
    /\ Len(s) >= Len(suffix)
    /\ SubSeq(s, Len(s) - Len(suffix) + 1, Len(s)) = suffix

Contains(s, sub) ==
    \E k \in 0 .. (Len(s) - Len(sub)) : SubSeq(s, k + 1, k + Len(sub)) = sub

\* A url as urlparse splits it: scheme, netloc, path, fragment.
Url(scheme, host, path, frag) ==
    [scheme |-> scheme, host |-> host, path |-> path, frag |-> frag]

\* An href attribute: an absolute url, a path ("/a"), a fragment only
\* ("#frag"), or a scheme without a host ("javascript:void(0)", "mailto:x").
Href(kind, scheme, host, path, frag) ==
    [kind |-> kind, scheme |-> scheme, host |-> host, path |-> path, frag |-> frag]

AbsHref(scheme, host, path) == Href("abs", scheme, host, path, "")
PathHref(path) == Href("path", "", <<>>, path, "")
FragHref(frag) == Href("frag", "", <<>>, "", frag)
OpaqueHref(scheme, rest) == Href("opaque", scheme, <<>>, rest, "")

\* urljoin(url, href)
UrlJoin(base, href) ==
    CASE href.kind = "abs" -> Url(href.scheme, href.host, href.path, href.frag)
      [] href.kind = "path" -> Url(base.scheme, base.host, href.path, "")
      [] href.kind = "frag" -> Url(base.scheme, base.host, base.path, href.frag)
      [] OTHER -> Url(href.scheme, <<>>, href.path, "")

SKIP_DOMAINS == {HostEprints, <<"facebook.com">>, <<"google.com">>}

SKIP_URLS ==
    {Url("https", HostSkipPage, "/page", ""),
     Url("https", <<"another-specific-page.org">>, "/skip-this", "")}

\* any(domain in parsed_url.netloc for domain in SKIP_DOMAINS) or url in SKIP_URLS
ShouldSkipExactOnly(url) == url \in SKIP_URLS

ShouldSkip(url) ==
    \/ \E domain \in SKIP_DOMAINS : Contains(url.host, domain)
    \/ url \in SKIP_URLS

HttpScheme(url) == url.scheme \in {"http", "https"}

\* get_links of external_link_checker.py: the two sets it returns.
IsInternal(url) == EndsWith(url.host, <<"soton.ac.uk">>) /\ HttpScheme(url)

InternalLinks(url, hrefs) ==
    {full \in {UrlJoin(url, h) : h \in hrefs} : ~ShouldSkip(full) /\ IsInternal(full)}

ExternalLinks(url, hrefs) ==
    {full \in {UrlJoin(url, h) : h \in hrefs} :
        ~ShouldSkip(full) /\ ~IsInternal(full) /\ HttpScheme(full)}

\* get_links of get-links.py: href.startswith(('mailto:', '#', 'javascript:', 'tel:'))
StartsWithRejected(href) ==
    \/ href.kind = "frag"
    \/ href.kind = "opaque" /\ href.scheme \in {"mailto", "javascript", "tel"}

PlaywrightLinks(url, hrefs) ==
    {UrlJoin(url, h) : h \in {g \in hrefs : ~StartsWithRejected(g)}}

\* get_external_links of the workflow script.
WorkflowExternalLinks(url, hrefs) ==
    {full \in {UrlJoin(url, h) : h \in hrefs} :
        full.host # HostRoot /\ full.host # HostWww /\ HttpScheme(full)}

\* The pages links are extracted from and the hrefs their anchors carry.
SeedPage == Url("https", HostWww, "/", "")

BasePages == {SeedPage, Url("http", HostExternal, "/", "")}

HrefA == PathHref("/a")
HrefFrag == FragHref("frag")
HrefJavascript == OpaqueHref("javascript", "void(0)")
HrefExternalX == AbsHref("http", HostExternal, "/x")

Hrefs ==
    {HrefA, HrefFrag, HrefJavascript, HrefExternalX,
     OpaqueHref("mailto", "x"),
     AbsHref("https", HostLibrary, "/b"),
     AbsHref("https", HostRoot, "/"),
     AbsHref("https", HostLookalike, "/"),
     AbsHref("https", HostGoogle, "/"),
     AbsHref("https", HostGoogleInfix, "/"),
     AbsHref("https", HostSkipPage, "/page"),
     AbsHref("ftp", HostLibrary, "/f")}

CheckerIdle ==
    /\ links = <<>>
    /\ batch_size = 1
    /\ max_concurrent = 1
    /\ pc = "idle"
    /\ i = 0
    /\ semaphore = <<>>
    /\ st = <<>>
    /\ lineno = <<>>
    /\ requests = <<>>
    /\ outcome = <<>>
    /\ all_results = <<>>
    /\ results = <<>>
    /\ report = <<>>
    /\ overtaken = FALSE

InitExtract ==
    /\ ex_base \in BasePages
    /\ ex_hrefs \in {h \in SUBSET Hrefs : Cardinality(h) <= MaxAnchors}
    /\ ex_ran = {}
    /\ ex_internal = {}
    /\ ex_external = {}
    /\ ex_links = {}
    /\ ex_wf_external = {}
    /\ CheckerIdle
    /\ CrawlIdle
    /\ FlagIdle

\* get_links(session, url) of external_link_checker.py on a page that was
\* fetched and parsed.
ExtGetLinks ==
    /\ "ext" \notin ex_ran
    /\ ex_base # <<>>
    /\ ex_internal' = InternalLinks(ex_base, ex_hrefs)
    /\ ex_external' = ExternalLinks(ex_base, ex_hrefs)
    /\ ex_ran' = ex_ran \cup {"ext"}
    /\ UNCHANGED <<ex_base, ex_hrefs, ex_links, ex_wf_external>>
    /\ UNCHANGED otherThanExtract

\* get_links(page, url) of get-links.py on a page that was rendered.
PlaywrightGetLinks ==
    /\ "playwright" \notin ex_ran
    /\ ex_base # <<>>
    /\ ex_links' = PlaywrightLinks(ex_base, ex_hrefs)
    /\ ex_ran' = ex_ran \cup {"playwright"}
    /\ UNCHANGED <<ex_base, ex_hrefs, ex_internal, ex_external, ex_wf_external>>
    /\ UNCHANGED otherThanExtract

\* get_external_links(session, url) of the workflow script.
WorkflowGetExternalLinks ==
    /\ "workflow" \notin ex_ran
    /\ ex_base # <<>>
    /\ ex_wf_external' = WorkflowExternalLinks(ex_base, ex_hrefs)
    /\ ex_ran' = ex_ran \cup {"workflow"}
    /\ UNCHANGED <<ex_base, ex_hrefs, ex_internal, ex_external, ex_links>>
    /\ UNCHANGED otherThanExtract

NextExtract ==
    \/ ExtGetLinks
    \/ PlaywrightGetLinks
    \/ WorkflowGetExternalLinks

SpecExtract == InitExtract /\ [][NextExtract]_vars

\* ------------------------------------------------- claims on extraction
\* The host is the root domain or one of its subdomains.
InDomain(host, domain) == host = domain \/ EndsWith(host, <<".">> \o domain)

\* The url is denied by the skip lists as the claims read them: its host
\* is a denied domain or a subdomain of one, or the url is a denied url.
DeniedBySuffix(url) ==
    \/ \E domain \in SKIP_DOMAINS : InDomain(url.host, domain)
    \/ url \in SKIP_URLS

\* C15 as stated: a link the extractor accepts is internal exactly when
\* its host is soton.ac.uk or a subdomain of it, and external otherwise
\* (the workflow script keeps only the external ones).
C15_InternalIffInDomain ==
    /\ "ext" \in ex_ran =>
          /\ \A u \in ex_internal : InDomain(u.host, HostRoot)
          /\ \A u \in ex_external : ~InDomain(u.host, HostRoot)
    /\ "workflow" \in ex_ran =>
          \A u \in ex_wf_external : ~InDomain(u.host, HostRoot)

\* C16 as stated: from the seed page with the anchors "/a", "#frag",
\* "javascript:void(0)" and "http://external.test/x" the extractors accept
\* two links, <seed>/a as internal and http://external.test/x as external.
ScenarioHrefs == {HrefA, HrefFrag, HrefJavascript, HrefExternalX}

ScenarioInternal == {Url("https", HostWww, "/a", "")}

ScenarioExternal == {Url("http", HostExternal, "/x", "")}

C16_ScenarioTwoLinks ==
    (ex_base = SeedPage /\ ex_hrefs = ScenarioHrefs) =>
        /\ "ext" \in ex_ran =>
              /\ ex_internal = ScenarioInternal
              /\ ex_external = ScenarioExternal
        /\ "playwright" \in ex_ran =>
              ex_links = ScenarioInternal \cup ScenarioExternal

\* C20 as stated: get_links drops a link for its host only when the host
\* is a denied domain or a subdomain of one; an http(s) link whose host
\* merely contains a denied domain is kept.
C20_DeniedBySuffixOnly ==
    "ext" \in ex_ran =>
        \A h \in ex_hrefs :
            LET full == UrlJoin(ex_base, h)
            IN  (HttpScheme(full) /\ ~DeniedBySuffix(full)) =>
                    full \in ex_internal \cup ex_external

\* ================================================ broken_links_found
\* The end of the two mains: the broken links are filtered from the
\* results and the flag is written to GITHUB_OUTPUT.

MaxOutcomes == 3

\* The status fields the checks produce: HTTP codes and error texts.
FlagStatuses ==
    {IntStatus(200), IntStatus(404), StrStatus("Timeout after 15 seconds"),
     StrStatus("Error")}

\* url-checker.py: isinstance(status, (int, str)) and
\* (not isinstance(status, int) or status != 200)
IsBrokenIntOnly(status) == status.isint /\ status.code # 200

IsBroken(status) ==
    /\ (status.isint \/ ~status.isint)
    /\ (~status.isint \/ status.code # 200)

\* external_link_checker.py: status != 200
IsBrokenExternal(status) == ~(status.isint /\ status.code = 200)

\* f"broken_links_found={'true' if broken_links else 'false'}"
FlagOf(broken_links) == IF broken_links # <<>> THEN "true" ELSE "false"

InitFlag ==
    /\ fl_statuses \in SeqsUpTo(FlagStatuses, MaxOutcomes)
    /\ fl_ran = {}
    /\ fl_checker = ""
    /\ fl_external = ""
    /\ CheckerIdle
    /\ ExtractIdle
    /\ CrawlIdle

\* main of url-checker.py, from the analysis of the results on.
CheckerWritesFlag ==
    /\ "checker" \notin fl_ran
    /\ fl_checker' = FlagOf(SelectSeq(fl_statuses, IsBroken))
    /\ fl_ran' = fl_ran \cup {"checker"}
    /\ UNCHANGED <<fl_statuses, fl_external>>
    /\ UNCHANGED otherThanFlag

\* main of external_link_checker.py, from broken_links on.
ExternalWritesFlag ==
    /\ "external" \notin fl_ran
    /\ fl_external' = FlagOf(SelectSeq(fl_statuses, IsBrokenExternal))
    /\ fl_ran' = fl_ran \cup {"external"}
    /\ UNCHANGED <<fl_statuses, fl_checker>>
    /\ UNCHANGED otherThanFlag

NextFlag ==
    \/ CheckerWritesFlag
    \/ ExternalWritesFlag

SpecFlag == InitFlag /\ [][NextFlag]_vars

\* Some status is an HTTP code other than 200 or an error text.
SomeNot200 ==
    \E p \in 1 .. Len(fl_statuses) :
        \/ fl_statuses[p].isint /\ fl_statuses[p].code # 200
        \/ ~fl_statuses[p].isint

All200 == \A p \in 1 .. Len(fl_statuses) : fl_statuses[p] = IntStatus(200)

\* C18: the flag a main writes is "true" exactly when some status is an
\* HTTP code other than 200 or an error text, and "false" exactly when
\* every status is 200 (also when there is no result at all).
C18_FlagIffSomeNot200 ==
    /\ "checker" \in fl_ran =>
          /\ fl_checker = "true" <=> SomeNot200
          /\ fl_checker = "false" <=> All200
    /\ "external" \in fl_ran =>
          /\ fl_external = "true" <=> SomeNot200
          /\ fl_external = "false" <=> All200

\* C18 witness: both mains wrote "true" for results that hold a 200 and an
\* error text and no other HTTP code.
C18_Witness ==
    /\ fl_ran = {"checker", "external"}
    /\ fl_checker = "true"
    /\ fl_external = "true"
    /\ \E p \in 1 .. Len(fl_statuses) : fl_statuses[p] = IntStatus(200)
    /\ \E p \in 1 .. Len(fl_statuses) : ~fl_statuses[p].isint
    /\ \A p \in 1 .. Len(fl_statuses) : fl_statuses[p].isint => fl_statuses[p].code = 200

\* ============================================================ the crawls
\* crawl_and_check_links of external_link_checker.py, crawl_site of
\* get-all-library-links.py and crawl_site of get-links.py.  One iteration
\* of a crawl loop is one step; what a page holds is decided when the page
\* is fetched.

MaxOut == 2
MaxPages == 2
MaxDepth == 2
MaxLinkLimit == 3

\* len(all_links) >= 1000 of get-links.py, scaled to the pages of the model.
FlushAt == 2

PageL0 == Url("https", HostLibrary, "/", "")
PageL1 == Url("https", HostLibrary, "/a", "")
PageL2 == Url("https", HostLibrary, "/b", "")
PageDenied == Url("https", HostEprints, "/", "")
LinkExternal == Url("http", HostExternal, "/x", "")
LinkExternalY == Url("http", HostExternal, "/y", "")
LinkSkipUrl == Url("https", HostSkipPage, "/page", "")

CrawlUrls ==
    {PageL0, PageL1, PageL2, PageDenied, LinkExternal, LinkExternalY, LinkSkipUrl}

\* The anchors a fetched page may carry: at most MaxOut absolute hrefs.
CrawlHrefs == {AbsHref(u.scheme, u.host, u.path) : u \in CrawlUrls}

PageContents == {h \in SUBSET CrawlHrefs : Cardinality(h) <= MaxOut}

\* The same for the two scripts that have no skip lists.
PlainUrls == {PageL0, PageL1, PageL2, LinkExternal}

PlainContents ==
    {h \in SUBSET {AbsHref(u.scheme, u.host, u.path) : u \in PlainUrls} :
        Cardinality(h) <= MaxOut}

\* One call of a link extractor, as the run remembers it: the page, the
\* depth it was popped with (0 where the loop keeps no depth) and the links
\* the call returned.
Extraction(url, depth, found) == [url |-> url, depth |-> depth, links |-> found]

\* The orders in which a set may be iterated.
Orders(S) ==
    {seq \in [1 .. Cardinality(S) -> S] :
        \A a, b \in 1 .. Cardinality(S) : a # b => seq[a] # seq[b]}

\* check_link: the status it returns (an HTTP status, or 'Error').
CheckStatuses == {IntStatus(200), StrStatus("Error")}

\* -------------------------------------------- external_link_checker.py
\* A loop condition that forgets to test to_visit.
MayCrawlBudgetOnly(pending, vis, limit) == Cardinality(vis) < limit

\* A loop condition that admits one page more.
MayCrawlInclusive(pending, vis, limit) == pending # {} /\ Cardinality(vis) <= limit

\* while to_visit and len(visited) < max_pages
MayCrawl(pending, vis, limit) == pending # {} /\ Cardinality(vis) < limit

\* if url in visited: continue / if <skip test>: continue
ExtSkips(url, vis) == url \in vis \/ ShouldSkip(url)

\* to_visit.update(internal - visited)
NewToVisit(internal, vis) == internal \ vis

\* An update of all_external_links that overwrites the parent.
WithExternalLast(dict, external, url) ==
    [u \in (DOMAIN dict) \cup external |-> IF u \in external THEN url ELSE dict[u]]

\* all_external_links[ext_link] = url for the ext_link not yet in it
WithExternal(dict, external, url) ==
    [u \in (DOMAIN dict) \cup external |-> IF u \in DOMAIN dict THEN dict[u] ELSE url]

\* (url, status_code, content_type, parent_url)
ExtResult(url, status, ctype, parent) ==
    [url |-> url, status |-> status, ctype |-> ctype, parent |-> parent]

\* An iteration that ends in a continue.
ExtSkip ==
    /\ prog = "ext"
    /\ c_pc = "crawl"
    /\ MayCrawl(to_visit, visited, max_pages)
    /\ \E url \in to_visit :
          /\ ExtSkips(url, visited)
          /\ to_visit' = to_visit \ {url}
    /\ UNCHANGED <<prog, start_url, max_pages, max_depth, max_links, recurse, c_pc,
                   visited, queue, all_external_links, to_check, c_results,
                   all_links, written, fetches, seen, failed, last_links, crawled>>
    /\ UNCHANGED otherThanCrawl

\* An iteration that crawls a page: get_links returns the links of the
\* anchors it got through (all of them, or those before an exception).
ExtVisit ==
    /\ prog = "ext"
    /\ c_pc = "crawl"
    /\ MayCrawl(to_visit, visited, max_pages)
    /\ \E url \in to_visit, content \in PageContents, fails \in BOOLEAN :
          LET internal == InternalLinks(url, content)
              external == ExternalLinks(url, content)
          IN  /\ ~ExtSkips(url, visited)
              /\ visited' = visited \cup {url}
              /\ to_visit' = (to_visit \ {url}) \cup NewToVisit(internal, visited \cup {url})
              /\ all_external_links' = WithExternal(all_external_links, external, url)
              /\ fetches' = [fetches EXCEPT ![url] = @ + 1]
              /\ seen' = seen \cup {UrlJoin(url, h) : h \in content}
              /\ failed' = IF fails THEN {url} ELSE {}
              /\ last_links' = internal \cup external
              /\ crawled' = Append(crawled, Extraction(url, 0, internal \cup external))
    /\ UNCHANGED <<prog, start_url, max_pages, max_depth, max_links, recurse, c_pc,
                   queue, to_check, c_results, all_links, written>>
    /\ UNCHANGED otherThanCrawl

\* The while loop ends; the check loop starts on all_external_links.
ExtCrawlEnds ==
    /\ prog = "ext"
    /\ c_pc = "crawl"
    /\ ~MayCrawl(to_visit, visited, max_pages)
    /\ to_check' = DOMAIN all_external_links
    /\ c_pc' = "check"
    /\ UNCHANGED <<prog, start_url, max_pages, max_depth, max_links, recurse,
                   visited, to_visit, queue, all_external_links, c_results,
                   all_links, written, fetches, seen, failed, last_links, crawled>>
    /\ UNCHANGED otherThanCrawl

\* One iteration of the check loop: skip the url, or check it and append
\* the result.
ExtCheckLink ==
    /\ prog = "ext"
    /\ c_pc = "check"
    /\ \E ext_url \in to_check, status \in CheckStatuses :
          /\ to_check' = to_check \ {ext_url}
          /\ c_results' =
                IF ShouldSkip(ext_url) THEN c_results
                ELSE Append(c_results,
                            ExtResult(ext_url, status, "", all_external_links[ext_url]))
    /\ UNCHANGED <<prog, start_url, max_pages, max_depth, max_links, recurse, c_pc,
                   visited, to_visit, queue, all_external_links, all_links, written,
                   fetches, seen, failed, last_links, crawled>>
    /\ UNCHANGED otherThanCrawl

ExtReturns ==
    /\ prog = "ext"
    /\ c_pc = "check"
    /\ to_check = {}
    /\ c_pc' = "done"
    /\ UNCHANGED <<prog, start_url, max_pages, max_depth, max_links, recurse,
                   visited, to_visit, queue, all_external_links, to_check, c_results,
                   all_links, written, fetches, seen, failed, last_links, crawled>>
    /\ UNCHANGED otherThanCrawl

\* ------------------------------------------- get-all-library-links.py
BaseUrl == PageL0

\* get_links_with_playwright: the links it returns for the anchors it got
\* through (urljoin on the global base_url, same netloc as base_url).
BfsLinks(content) ==
    {full \in {UrlJoin(BaseUrl, h) : h \in {g \in content : ~StartsWithRejected(g)}} :
        full.host = BaseUrl.host}

\* A skip test that forgets the visited set.
BfsSkipsDepthOnly(url, depth, vis, maxd) == depth > maxd

\* if depth > max_depth or url in visited: continue
BfsSkips(url, depth, vis, maxd) == depth > maxd \/ url \in vis

\* An append loop that forgets the visited set.
BfsAppendedAll(found, vis) == found

\* for link in links: if link not in visited: queue.append(...)
BfsAppended(found, vis) == {link \in found : link \notin vis}

\* (link, depth + 1) for the links in the order the set is iterated
Entries(order, depth) == [k \in 1 .. Len(order) |-> <<order[k], depth>>]

BfsSkip ==
    /\ prog = "bfs"
    /\ c_pc = "crawl"
    /\ queue # <<>>
    /\ BfsSkips(Head(queue)[1], Head(queue)[2], visited, max_depth)
    /\ queue' = Tail(queue)
    /\ UNCHANGED <<prog, start_url, max_pages, max_depth, max_links, recurse, c_pc,
                   visited, to_visit, all_external_links, to_check, c_results,
                   all_links, written, fetches, seen, failed, last_links, crawled>>
    /\ UNCHANGED otherThanCrawl

BfsVisit ==
    /\ prog = "bfs"
    /\ c_pc = "crawl"
    /\ queue # <<>>
    /\ ~BfsSkips(Head(queue)[1], Head(queue)[2], visited, max_depth)
    /\ \E content \in PlainContents, fails \in BOOLEAN :
          LET url == Head(queue)[1]
              depth == Head(queue)[2]
              found == BfsLinks(content)
          IN  /\ visited' = visited \cup {url}
              /\ all_links' = all_links \cup found
              /\ \E order \in Orders(BfsAppended(found, visited \cup {url})) :
                    queue' = Tail(queue) \o Entries(order, depth + 1)
              /\ fetches' = [fetches EXCEPT ![url] = @ + 1]
              /\ seen' = seen \cup {UrlJoin(BaseUrl, h) : h \in content}
              /\ failed' = IF fails THEN {url} ELSE {}
              /\ last_links' = found
              /\ crawled' = Append(crawled, Extraction(url, depth, found))
    /\ UNCHANGED <<prog, start_url, max_pages, max_depth, max_links, recurse, c_pc,
                   to_visit, all_external_links, to_check, c_results, written>>
    /\ UNCHANGED otherThanCrawl

\* p.chromium.launch() raises: the call stands before the try block, so the
\* exception leaves get_links_with_playwright, crawl_site and main.
BfsLaunchRaises ==
    /\ prog = "bfs"
    /\ c_pc = "crawl"
    /\ queue # <<>>
    /\ ~BfsSkips(Head(queue)[1], Head(queue)[2], visited, max_depth)
    /\ visited' = visited \cup {Head(queue)[1]}
    /\ queue' = Tail(queue)
    /\ fetches' = [fetches EXCEPT ![Head(queue)[1]] = @ + 1]
    /\ failed' = {Head(queue)[1]}
    /\ last_links' = {}
    /\ crawled' = Append(crawled, Extraction(Head(queue)[1], Head(queue)[2], {}))
    /\ c_pc' = "raised"
    /\ UNCHANGED <<prog, start_url, max_pages, max_depth, max_links, recurse,
                   to_visit, all_external_links, to_check, c_results, all_links,
                   written, seen>>
    /\ UNCHANGED otherThanCrawl

BfsReturns ==
    /\ prog = "bfs"
    /\ c_pc = "crawl"
    /\ queue = <<>>
    /\ c_pc' = "done"
    /\ UNCHANGED <<prog, start_url, max_pages, max_depth, max_links, recurse,
                   visited, to_visit, queue, all_external_links, to_check, c_results,
                   all_links, written, fetches, seen, failed, last_links, crawled>>
    /\ UNCHANGED otherThanCrawl

\* --------------------------------------------------------- get-links.py
\* while to_visit and len(all_links) < max_links
GlMayCrawl(pending, buffered, limit) == pending # {} /\ Cardinality(buffered) < limit

\* recurse and urlparse(link).netloc == base_domain and link not in visited
GlFollows(link, base, vis, rec) == rec /\ link.host = base.host /\ link \notin vis

\* One iteration: a continue for a url already visited, else the page is
\* rendered, its links are appended to all_links and followed, and the
\* batch is yielded to main when it has reached the flush size.
GlIteration ==
    /\ prog = "getlinks"
    /\ c_pc = "crawl"
    /\ GlMayCrawl(to_visit, all_links, max_links)
    /\ \E url \in to_visit, content \in PlainContents, fails \in BOOLEAN :
          IF url \in visited
          THEN /\ to_visit' = to_visit \ {url}
               /\ UNCHANGED <<visited, all_links, written, fetches, seen, failed,
                              last_links, crawled>>
          ELSE LET found == PlaywrightLinks(url, content)
                   buffered == all_links \cup {<<link, url>> : link \in found}
               IN  /\ visited' = visited \cup {url}
                   /\ to_visit' = (to_visit \ {url}) \cup
                         {link \in found :
                             GlFollows(link, start_url, visited \cup {url}, recurse)}
                   /\ IF Cardinality(buffered) >= FlushAt
                      THEN /\ written' = written \cup buffered
                           /\ all_links' = {}
                      ELSE /\ all_links' = buffered
                           /\ UNCHANGED written
                   /\ fetches' = [fetches EXCEPT ![url] = @ + 1]
                   /\ seen' = seen \cup {UrlJoin(url, h) : h \in content}
                   /\ failed' = IF fails THEN {url} ELSE {}
                   /\ last_links' = found
                   /\ crawled' = Append(crawled, Extraction(url, 0, found))
    /\ UNCHANGED <<prog, start_url, max_pages, max_depth, max_links, recurse, c_pc,
                   queue, all_external_links, to_check, c_results>>
    /\ UNCHANGED otherThanCrawl

\* The loop ends: the remaining links are yielded.
GlEnds ==
    /\ prog = "getlinks"
    /\ c_pc = "crawl"
    /\ ~GlMayCrawl(to_visit, all_links, max_links)
    /\ written' = written \cup all_links
    /\ all_links' = {}
    /\ c_pc' = "done"
    /\ UNCHANGED <<prog, start_url, max_pages, max_depth, max_links, recurse,
                   visited, to_visit, queue, all_external_links, to_check, c_results,
                   fetches, seen, failed, last_links, crawled>>
    /\ UNCHANGED otherThanCrawl

\* ------------------------------------------------------------ the runs
CrawlStart ==
    /\ c_pc = "crawl"
    /\ visited = {}
    /\ all_external_links = [u \in {} |-> u]
    /\ to_check = {}
    /\ c_results = <<>>
    /\ all_links = {}
    /\ written = {}
    /\ fetches = [u \in CrawlUrls |-> 0]
    /\ seen = {}
    /\ failed = {}
    /\ last_links = {}
    /\ crawled = <<>>

InitCrawl ==
    /\ CheckerIdle
    /\ ExtractIdle
    /\ FlagIdle
    /\ CrawlStart
    /\ \/ /\ prog = "ext"
          /\ start_url \in {PageL0, PageDenied}
          /\ max_pages \in 0 .. MaxPages
          /\ max_depth = 0
          /\ max_links = 0
          /\ recurse = FALSE
          /\ to_visit = {start_url}
          /\ queue = <<>>
       \/ /\ prog = "bfs"
          /\ start_url = BaseUrl
          /\ max_pages = 0
          /\ max_depth \in 0 .. MaxDepth
          /\ max_links = 0
          /\ recurse = FALSE
          /\ to_visit = {}
          /\ queue = <<<<start_url, 0>>>>
       \/ /\ prog = "getlinks"
          /\ start_url = PageL0
          /\ max_pages = 0
          /\ max_depth = 0
          /\ max_links \in 1 .. MaxLinkLimit
          /\ recurse \in BOOLEAN
          /\ to_visit = {start_url}
          /\ queue = <<>>

NextCrawl ==
    \/ ExtSkip
    \/ ExtVisit
    \/ ExtCrawlEnds
    \/ ExtCheckLink
    \/ ExtReturns
    \/ BfsSkip
    \/ BfsVisit
    \/ BfsLaunchRaises
    \/ BfsReturns
    \/ GlIteration
    \/ GlEnds

SpecCrawl == InitCrawl /\ [][NextCrawl]_vars

\* The same runs when every awaited extraction and check comes back: the
\* loop body is sequential code, so a run does not stop while an iteration
\* is possible.
SpecCrawlLive == SpecCrawl /\ WF_vars(NextCrawl)

\* ------------------------------------------------------ claims C11..C14
\* The urls of results: the first field of each result tuple.
ResultUrls == {c_results[k].url : k \in 1 .. Len(c_results)}

\* C11: in crawl_and_check_links a url whose host is a denied domain (or a
\* subdomain of one) or that is a denied url is never passed to get_links,
\* never enters all_external_links or the check loop, and never appears in
\* the results, whatever the start url and whatever the pages hold.
C11_DeniedNeverCrawledNorChecked ==
    prog = "ext" =>
        \A u \in CrawlUrls :
            DeniedBySuffix(u) =>
                /\ fetches[u] = 0
                /\ u \notin visited
                /\ u \notin DOMAIN all_external_links
                /\ u \notin to_check
                /\ u \notin ResultUrls

\* C11 witness: the crawl has returned results after pages carried anchors
\* to a page of a denied domain and to a denied url.
C11_Witness ==
    /\ prog = "ext"
    /\ c_pc = "done"
    /\ c_results # <<>>
    /\ {PageDenied, LinkSkipUrl} \subseteq seen

\* The urls waiting to be crawled: to_visit, or the urls of the queue.
Pending == to_visit \cup {queue[k][1] : k \in 1 .. Len(queue)}

NoDuplicatePending ==
    \A j, k \in 1 .. Len(queue) : queue[j][1] = queue[k][1] => j = k

\* C12 as stated: in every crawl loop, at every iteration boundary, the
\* visited set and the pending collection are disjoint and no url is
\* pending twice.
C12_VisitedPendingDisjoint ==
    /\ Pending \cap visited = {}
    /\ NoDuplicatePending

\* C12 amended: in crawl_and_check_links and in crawl_site of get-links.py
\* visited and to_visit are disjoint after every iteration; in crawl_site
\* of get-all-library-links.py an iteration never appends a link that is
\* visited by then (the queue may still hold a url twice, or a url visited
\* since it was appended), and popping a visited url fetches nothing.
C12_DisjointOrDiscardedOnPop ==
    [][/\ prog \in {"ext", "getlinks"} => to_visit' \cap visited' = {}
       /\ prog = "bfs" =>
            /\ \A k \in 1 .. Len(queue') :
                  k >= Len(queue) => queue'[k][1] \notin visited'
            /\ (queue # <<>> /\ Head(queue)[1] \in visited) =>
                   (fetches' = fetches /\ visited' = visited)]_vars

\* C12 witness: the queue of get-all-library-links.py holds a url that has
\* been visited since it was appended.
C12_Witness ==
    /\ prog = "bfs"
    /\ c_pc = "crawl"
    /\ \E k \in 1 .. Len(queue) : queue[k][1] \in visited

\* C13: in each of the three crawl loops no url is marked visited and
\* handed to the link extractor more than once in a run, whatever the
\* pages link to.
C13_FetchedAtMostOnce == \A u \in CrawlUrls : fetches[u] <= 1

\* C13 witness: a crawl of get-all-library-links.py has ended after two
\* pages or more, one of which linked back to the start page.
C13_Witness ==
    /\ prog = "bfs"
    /\ c_pc = "done"
    /\ Cardinality(visited) >= 2
    /\ start_url \in all_links
    /\ fetches[start_url] = 1

\* C14: crawl_and_check_links never has more than max_pages pages in
\* visited, and once the crawl phase is over either nothing is pending or
\* max_pages pages have been visited.
C14_AtMostMaxPages ==
    prog = "ext" =>
        /\ Cardinality(visited) <= max_pages
        /\ \A u \in CrawlUrls : fetches[u] > 0 <=> u \in visited
        /\ c_pc \in {"check", "done"} =>
              (to_visit = {} \/ Cardinality(visited) >= max_pages)

\* C14 witness: the crawl phase has stopped at the page limit with pages
\* still pending.
C14_Witness ==
    /\ prog = "ext"
    /\ c_pc = "check"
    /\ max_pages >= 1
    /\ Cardinality(visited) = max_pages
    /\ to_visit # {}

\* ------------------------------------------------------ claims C17, C19
\* C17 as stated: whenever the fetch or the rendering of a page fails, the
\* link extractor returns the empty link set and raises nothing, and the
\* crawl goes on with the failed page kept in visited.
C17_FailureGivesEmptySet ==
    [][(fetches' # fetches /\ failed' # {}) =>
          /\ last_links' = {}
          /\ c_pc' # "raised"
          /\ failed' \subseteq visited']_vars

\* The link records collected so far in a run of get-links.py: those
\* already yielded and those still in all_links.
Collected == Cardinality(written \cup all_links)

\* C19 as stated: crawl_site of get-links.py fetches a page only while
\* fewer than max_links link records have been collected in the run.
C19_NoFetchPastMaxLinks ==
    [][(prog = "getlinks" /\ fetches' # fetches) => Collected < max_links]_vars

\* ------------------------------------------------------ claims C21..C24
\* The link graph as the run has met it: the links the extractor returned
\* for a page (none for a page not extracted).
LinksOf(u) == UNION {crawled[k].links : k \in {j \in 1 .. Len(crawled) : crawled[j].url = u}}

\* The urls within d links of the start url.
RECURSIVE Within(_)
Within(d) ==
    IF d = 0 THEN {start_url}
    ELSE Within(d - 1) \cup UNION {LinksOf(u) : u \in Within(d - 1)}

\* The shortest link distance of u from the start url (u is within
\* MaxDepth + 1 links of it).
Distance(u) ==
    CHOOSE d \in 0 .. MaxDepth + 1 :
        /\ u \in Within(d)
        /\ \A e \in 0 .. MaxDepth + 1 : u \in Within(e) => d <= e

\* C21 as stated: crawl_site of get-all-library-links.py extracts no page
\* at a depth above max_depth, the depth of an extracted page is its
\* shortest link distance from the start url, and when the crawl is over
\* every page within max_depth links of the start url has been extracted.
C21_DepthIsShortestDistance ==
    prog = "bfs" =>
        /\ \A k \in 1 .. Len(crawled) :
              /\ crawled[k].depth <= max_depth
              /\ crawled[k].url \in Within(crawled[k].depth)
              /\ crawled[k].depth = Distance(crawled[k].url)
        /\ c_pc \in {"done", "raised"} => Within(max_depth) \subseteq visited

\* The external links each crawled page's extraction returned, in crawl
\* order.
ExternalFound ==
    [k \in 1 .. Len(crawled) |-> {link \in crawled[k].links : ~IsInternal(link)}]

\* The external links found on the pages of found.
DiscoveredIn(found) == UNION {found[k] : k \in DOMAIN found}

\* The first crawled page on which the external link u was found.
FirstParentIn(found, u) ==
    crawled[CHOOSE k \in DOMAIN found :
                /\ u \in found[k]
                /\ \A j \in 1 .. k - 1 : u \notin found[j]].url

\* C22: in crawl_and_check_links every external link discovered so far is
\* kept with the first crawled page on which it was found as its parent,
\* no link has two results, every result carries that first parent, and
\* when the function returns the results are those of exactly the
\* discovered links.
C22_CheckedOnceWithFirstParent ==
    prog = "ext" =>
        LET found == ExternalFound
            discovered == DiscoveredIn(found)
        IN  /\ DOMAIN all_external_links = discovered
            /\ \A u \in discovered : all_external_links[u] = FirstParentIn(found, u)
            /\ \A j, k \in 1 .. Len(c_results) :
                  c_results[j].url = c_results[k].url => j = k
            /\ \A k \in 1 .. Len(c_results) :
                  c_results[k].parent = all_external_links[c_results[k].url]
            /\ c_pc = "done" => ResultUrls = discovered

\* C22 witness: the function has returned the results of two external
\* links, one of which was found on two crawled pages.
C22_Witness ==
    /\ prog = "ext"
    /\ c_pc = "done"
    /\ Len(c_results) = 2
    /\ \E u \in DiscoveredIn(ExternalFound) :
          Cardinality({k \in 1 .. Len(crawled) : u \in ExternalFound[k]}) = 2

\* C23 as stated: when every request ends, check_all_links eventually
\* returns (and main writes the report), whatever the rows, the batch size
\* and the number of permits.
C23_EventuallyReturns == <>(pc = "done")

\* C24: when no extraction raises, each of the three crawl loops is left
\* after finitely many iterations, whatever the pages link to:
\* crawl_and_check_links goes on to its check loop and the two crawl_site
\* return.
C24_CrawlLoopsTerminate ==
    [](c_pc # "raised") => <>(c_pc \in {"check", "done"})

\* C24 witness: the recursive crawl of get-links.py has returned after
\* crawling two pages that link to each other.
C24_Witness ==
    /\ prog = "getlinks"
    /\ c_pc = "done"
    /\ \E j, k \in 1 .. Len(crawled) :
          /\ j # k
          /\ crawled[j].url \in crawled[k].links
          /\ crawled[k].url \in crawled[j].links

====
